---- MODULE Spec2Model ----
(***************************************************************************)
(* The k0s "sysinfo" command (cmd/sysinfo/sysinfo.go): the report driver   *)
(* RunE, the human reporter cliReporter, the structured-result collector   *)
(* resultsCollector with collectAndPrint, and the formatting helpers.      *)
(*                                                                         *)
(* Go strings are sequences of one-character strings; a colour escape      *)
(* sequence is one element.  A Go slice, interface value or error that may *)
(* be nil is a record with an isNil field.                                 *)
(***************************************************************************)
EXTENDS Integers, Sequences, FiniteSets, TLC

VARIABLES
    outputFormat,   \* the --output flag
    isTerminal,     \* term.IsTerminal(out): whether aurora colours are on
    pc,             \* "start" | "probing" | "returned" | "done" | "unit"
    calls,          \* history of the reporter callbacks made so far
    cli_failed,     \* cliReporter.failed
    c_failed,       \* resultsCollector.failed
    c_results,      \* resultsCollector.results
    out,            \* the output sink: the sequence of Write calls it received
    probeCalls,     \* number of invocations of probes.Probe
    marshalCalls,   \* number of invocations of the marshal function
    cbRet,          \* what the last reporter callback returned
    probeRet,       \* what probes.Probe returned
    ret,            \* what RunE returned
    indentRes       \* result of a direct call of indent

vars == <<outputFormat, isTerminal, pc, calls, cli_failed, c_failed, c_results,
          out, probeCalls, marshalCalls, cbRet, probeRet, ret, indentRes>>

----------------------------------------------------------------------------
(* Bounds *)

MaxCalls == 2       \* callbacks the probe engine makes in one run
MaxPathLen == 3     \* longest descriptor path of the reporter harness
MaxStrLen == 1      \* longest name / property / message of the harness

----------------------------------------------------------------------------
(* Values *)

NL == "\n"
SP == " "

NilSlice == [isNil |-> TRUE, elems |-> <<>>]

Slice(s) == [isNil |-> FALSE, elems |-> s]

NilErr == [isNil |-> TRUE, text |-> <<>>]

Err(t) == [isNil |-> FALSE, text |-> t]

NilProp == [isNil |-> TRUE, str |-> <<>>]

Prop(s) == [isNil |-> FALSE, str |-> s]

NilDesc == [isNil |-> TRUE, path |-> NilSlice, name |-> <<>>]

Desc(path, name) == [isNil |-> FALSE, path |-> path, name |-> name]

ProbeCategoryPass == <<"p", "a", "s", "s">>

ProbeCategoryWarning == <<"w", "a", "r", "n", "i", "n", "g">>

ProbeCategoryRejected == <<"r", "e", "j", "e", "c", "t", "e", "d">>

ProbeCategoryError == <<"e", "r", "r", "o", "r">>

\* The Probe struct; fields a callback leaves out hold Go's zero value.
Probe(path, displayName, prop, message, category, error) ==
    [Path |-> path, DisplayName |-> displayName, Prop |-> prop,
     Message |-> message, Category |-> category, Error |-> error]

\* Return values (Go errors compared by what produced them).
NoError == "nil"
WriteError == "write error"
ProbeError == "probe error"
MarshalError == "marshal error"
SysinfoFailed == "sysinfo failed"
UnknownFormat == "unknown output format"

----------------------------------------------------------------------------
(* aurora: colours *)

EscReset == "ESC[0m"
EscBrightWhite == "ESC[97m"
EscGreen == "ESC[32m"
EscYellow == "ESC[33m"
EscBoldRed == "ESC[1;31m"

Escapes == {EscReset, EscBrightWhite, EscGreen, EscYellow, EscBoldRed}

\* aurora.NewAurora(enable).<Colour>(s) rendered with %s.
Colorize(enable, esc, s) == IF enable THEN <<esc>> \o s \o <<EscReset>> ELSE s

----------------------------------------------------------------------------
(* Helpers of sysinfo.go *)

RECURSIVE Repeat(_, _)
\* strings.Repeat(s, count), count >= 0
Repeat(s, count) == IF count = 0 THEN <<>> ELSE s \o Repeat(s, count - 1)

\* indent with the "- 1" of the count left out
indent_offByOne(p) ==
    IF ~p.isNil
    THEN LET count == Len(p.path.elems)
         IN  IF count < 1 THEN <<>> ELSE Repeat(<<SP, SP>>, count)
    ELSE Repeat(<<SP, SP>>, 0)

indent(p) ==
    IF ~p.isNil
    THEN LET count == Len(p.path.elems) - 1
         IN  IF count < 1 THEN <<>> ELSE Repeat(<<SP, SP>>, count)
    ELSE Repeat(<<SP, SP>>, 0)

propString(v) == IF v.isNil THEN <<>> ELSE v.str

probePath(p) == IF Len(p.path.elems) = 0 THEN NilSlice ELSE p.path

\* buildMsg writing the separating space whatever the property string
buildMsg_alwaysSpace(ps, category, msg) ==
    <<SP>>
    \o <<"(">> \o category
    \o (IF msg # <<>> THEN <<":", SP>> \o msg ELSE <<>>)
    \o <<")">>

buildMsg(ps, category, msg) ==
    (IF ps # <<>> THEN <<SP>> ELSE <<>>)
    \o <<"(">> \o category
    \o (IF msg # <<>> THEN <<":", SP>> \o msg ELSE <<>>)
    \o <<")">>

\* errStr without the test for an empty error text
errStr_alwaysColon(err) ==
    LET word == <<"e", "r", "r", "o", "r">>
    IN  IF ~err.isNil THEN word \o <<":", SP>> \o err.text ELSE word

\* The text cliReporter.Error builds in errStr.
errStr(err) ==
    LET word == <<"e", "r", "r", "o", "r">>
    IN  IF ~err.isNil
        THEN IF err.text # <<>> THEN word \o <<":", SP>> \o err.text ELSE word
        ELSE word

\* append putting the new element first
append_front(slice, x) == Slice(<<x>> \o slice.elems)

\* append(slice, x)
append(slice, x) == Slice(Append(slice.elems, x))

----------------------------------------------------------------------------
(* The output sink (io.Writer).  A Write accepts all of the data, or fails   *)
(* having accepted a shorter prefix of it.                                   *)

WriteOutcomes == {"ok", "short", "fail"}

Accepted(data, w) ==
    IF w = "ok" THEN Len(data) ELSE IF w = "short" THEN Len(data) \div 2 ELSE 0

\* out.Write(data) / io.WriteString(out, data) with outcome w
Write(data, w) ==
    out' = Append(out, [data |-> data, n |-> Accepted(data, w), err |-> w # "ok"])

WriteRet(w) == IF w = "ok" THEN NoError ELSE WriteError

\* The bytes the sink holds.
RECURSIVE Bytes(_)
Bytes(o) ==
    IF o = <<>> THEN <<>>
    ELSE Bytes(SubSeq(o, 1, Len(o) - 1)) \o SubSeq(o[Len(o)].data, 1, o[Len(o)].n)

Call(kind, p, v, msg, err, w) ==
    [kind |-> kind, p |-> p, v |-> v, msg |-> msg, err |-> err, w |-> w]

----------------------------------------------------------------------------
(* cliReporter *)

\* aurora.Sprintf of the four/three %s arguments and the "\n" of the format
PassLine(p, v) ==
    LET prop == propString(v)
    IN  indent(p)
        \o Colorize(isTerminal, EscBrightWhite, p.name \o <<":", SP>>)
        \o Colorize(isTerminal, EscGreen, prop)
        \o buildMsg(prop, <<"p", "a", "s", "s">>, <<>>)
        \o <<NL>>

WarnLine(p, v, msg) ==
    LET prop == propString(v)
    IN  indent(p)
        \o Colorize(isTerminal, EscBrightWhite, p.name \o <<":", SP>>)
        \o Colorize(isTerminal, EscYellow, prop)
        \o buildMsg(prop, <<"w", "a", "r", "n", "i", "n", "g">>, msg)
        \o <<NL>>

RejectLine(p, v, msg) ==
    LET prop == propString(v)
    IN  indent(p)
        \o Colorize(isTerminal, EscBrightWhite, p.name \o <<":", SP>>)
        \o Colorize(isTerminal, EscBoldRed, prop)
        \o buildMsg(prop, <<"r", "e", "j", "e", "c", "t", "e", "d">>, msg)
        \o <<NL>>

\* ErrorLine with the "\n" of the format left out
ErrorLine_noNewline(p, err) ==
    indent(p)
    \o Colorize(isTerminal, EscBrightWhite, p.name \o <<":", SP>>)
    \o Colorize(isTerminal, EscBoldRed, errStr(err))

ErrorLine(p, err) ==
    indent(p)
    \o Colorize(isTerminal, EscBrightWhite, p.name \o <<":", SP>>)
    \o Colorize(isTerminal, EscBoldRed, errStr(err))
    \o <<NL>>

\* printf keeping the line back instead of writing it
printf_buffered(line, w) ==
    /\ UNCHANGED out
    /\ cbRet' = NoError

printf(line, w) ==
    /\ Write(line, w)
    /\ cbRet' = WriteRet(w)

\* Pass clearing the failure flag
cliPass_resetsFailed(p, v, w) ==
    /\ cli_failed' = FALSE
    /\ printf(PassLine(p, v), w)
    /\ calls' = Append(calls, Call("Pass", p, v, <<>>, NilErr, w))
    /\ UNCHANGED <<outputFormat, isTerminal, pc, c_failed, c_results,
                   probeCalls, marshalCalls, probeRet, ret, indentRes>>

cliPass(p, v, w) ==
    /\ printf(PassLine(p, v), w)
    /\ calls' = Append(calls, Call("Pass", p, v, <<>>, NilErr, w))
    /\ UNCHANGED <<outputFormat, isTerminal, pc, cli_failed, c_failed, c_results,
                   probeCalls, marshalCalls, probeRet, ret, indentRes>>

cliWarn(p, v, msg, w) ==
    /\ printf(WarnLine(p, v, msg), w)
    /\ calls' = Append(calls, Call("Warn", p, v, msg, NilErr, w))
    /\ UNCHANGED <<outputFormat, isTerminal, pc, cli_failed, c_failed, c_results,
                   probeCalls, marshalCalls, probeRet, ret, indentRes>>

cliReject(p, v, msg, w) ==
    /\ cli_failed' = TRUE
    /\ printf(RejectLine(p, v, msg), w)
    /\ calls' = Append(calls, Call("Reject", p, v, msg, NilErr, w))
    /\ UNCHANGED <<outputFormat, isTerminal, pc, c_failed, c_results,
                   probeCalls, marshalCalls, probeRet, ret, indentRes>>

cliError(p, err, w) ==
    /\ cli_failed' = TRUE
    /\ printf(ErrorLine(p, err), w)
    /\ calls' = Append(calls, Call("Error", p, NilProp, <<>>, err, w))
    /\ UNCHANGED <<outputFormat, isTerminal, pc, c_failed, c_results,
                   probeCalls, marshalCalls, probeRet, ret, indentRes>>

----------------------------------------------------------------------------
(* resultsCollector *)

collectorPass(p, v) ==
    /\ c_results' = append(c_results,
            Probe(probePath(p), p.name, propString(v), <<>>, ProbeCategoryPass, NilErr))
    /\ cbRet' = NoError
    /\ calls' = Append(calls, Call("Pass", p, v, <<>>, NilErr, "none"))
    /\ UNCHANGED <<outputFormat, isTerminal, pc, cli_failed, c_failed, out,
                   probeCalls, marshalCalls, probeRet, ret, indentRes>>

collectorWarn(p, v, msg) ==
    /\ c_results' = append(c_results,
            Probe(probePath(p), p.name, propString(v), msg, ProbeCategoryWarning, NilErr))
    /\ cbRet' = NoError
    /\ calls' = Append(calls, Call("Warn", p, v, msg, NilErr, "none"))
    /\ UNCHANGED <<outputFormat, isTerminal, pc, cli_failed, c_failed, out,
                   probeCalls, marshalCalls, probeRet, ret, indentRes>>

collectorReject(p, v, msg) ==
    /\ c_failed' = TRUE
    /\ c_results' = append(c_results,
            Probe(probePath(p), p.name, propString(v), msg, ProbeCategoryRejected, NilErr))
    /\ cbRet' = NoError
    /\ calls' = Append(calls, Call("Reject", p, v, msg, NilErr, "none"))
    /\ UNCHANGED <<outputFormat, isTerminal, pc, cli_failed, out,
                   probeCalls, marshalCalls, probeRet, ret, indentRes>>

collectorError(p, err) ==
    /\ c_failed' = TRUE
    /\ c_results' = append(c_results,
            Probe(probePath(p), p.name, <<>>, <<>>, ProbeCategoryError, err))
    /\ cbRet' = NoError
    /\ calls' = Append(calls, Call("Error", p, NilProp, <<>>, err, "none"))
    /\ UNCHANGED <<outputFormat, isTerminal, pc, cli_failed, out,
                   probeCalls, marshalCalls, probeRet, ret, indentRes>>

----------------------------------------------------------------------------
(* Encoders: json.MarshalIndent and yaml.Marshal of a []Probe.  The document *)
(* is a sequence of tokens: "null" for a nil slice, otherwise the list       *)
(* opening, one token per record in slice order, and the list closing.       *)

ZeroProbe == Probe(NilSlice, <<>>, <<>>, <<>>, <<>>, NilErr)

Tok(t, enc, rec) == [t |-> t, enc |-> enc, rec |-> rec]

marshal(enc, results) ==
    IF results.isNil
    THEN <<Tok("null", enc, ZeroProbe)>>
    ELSE <<Tok("begin", enc, ZeroProbe)>>
         \o [i \in 1..Len(results.elems) |-> Tok("record", enc, results.elems[i])]
         \o <<Tok("end", enc, ZeroProbe)>>

----------------------------------------------------------------------------
(* What the probe engine reports: the descriptors, properties, messages and  *)
(* errors of its catalogue.                                                  *)

ProbeDescs ==
    { Desc(Slice(<<>>), <<"r">>),
      Desc(Slice(<<"os">>), <<"o">>),
      Desc(Slice(<<"os", "kernel">>), <<"k">>) }

ProbeProps == {NilProp, Prop(<<"v">>)}

ProbeMsgs == {<<>>, <<"m">>}

ProbeErrs == {NilErr, Err(<<>>), Err(<<"x">>)}

Formats == {"text", "json", "yaml", "csv"}

----------------------------------------------------------------------------
(* RunE: the report driver *)

Init ==
    /\ outputFormat \in Formats
    /\ isTerminal \in BOOLEAN
    /\ pc = "start"
    /\ calls = <<>>
    /\ cli_failed = FALSE
    /\ c_failed = FALSE
    /\ c_results = NilSlice
    /\ out = <<>>
    /\ probeCalls = 0
    /\ marshalCalls = 0
    /\ cbRet = NoError
    /\ probeRet = NoError
    /\ ret = NoError
    /\ indentRes = <<>>

\* case "text": build the cliReporter and call probes.Probe(cli)
RunEText ==
    /\ pc = "start"
    /\ outputFormat = "text"
    /\ cli_failed' = FALSE
    /\ probeCalls' = probeCalls + 1
    /\ pc' = "probing"
    /\ UNCHANGED <<outputFormat, isTerminal, calls, c_failed, c_results, out,
                   marshalCalls, cbRet, probeRet, ret, indentRes>>

\* case "json", "yaml": enter collectAndPrint, which calls probe.Probe(&c)
RunEStructured ==
    /\ pc = "start"
    /\ outputFormat \in {"json", "yaml"}
    /\ c_failed' = FALSE
    /\ c_results' = NilSlice
    /\ probeCalls' = probeCalls + 1
    /\ pc' = "probing"
    /\ UNCHANGED <<outputFormat, isTerminal, calls, cli_failed, out,
                   marshalCalls, cbRet, probeRet, ret, indentRes>>

\* the driver probing before it looks at the format
RunEUnknown_probesFirst ==
    /\ pc = "start"
    /\ outputFormat \notin {"text", "json", "yaml"}
    /\ probeCalls' = probeCalls + 1
    /\ ret' = UnknownFormat
    /\ pc' = "done"
    /\ UNCHANGED <<outputFormat, isTerminal, calls, cli_failed, c_failed, c_results,
                   out, marshalCalls, cbRet, probeRet, indentRes>>

\* default: the format-validation error
RunEUnknown ==
    /\ pc = "start"
    /\ outputFormat \notin {"text", "json", "yaml"}
    /\ ret' = UnknownFormat
    /\ pc' = "done"
    /\ UNCHANGED <<outputFormat, isTerminal, calls, cli_failed, c_failed, c_results,
                   out, probeCalls, marshalCalls, cbRet, probeRet, indentRes>>

\* the text case without the test of cli.failed
RunETextReturn_ignoreFailed ==
    /\ pc = "returned"
    /\ outputFormat = "text"
    /\ ret' = probeRet
    /\ pc' = "done"
    /\ UNCHANGED <<outputFormat, isTerminal, calls, cli_failed, c_failed, c_results,
                   out, probeCalls, marshalCalls, cbRet, probeRet, indentRes>>

\* case "text", after probes.Probe(cli) has returned
RunETextReturn ==
    /\ pc = "returned"
    /\ outputFormat = "text"
    /\ ret' = IF probeRet # NoError THEN probeRet
              ELSE IF cli_failed THEN SysinfoFailed
              ELSE NoError
    /\ pc' = "done"
    /\ UNCHANGED <<outputFormat, isTerminal, calls, cli_failed, c_failed, c_results,
                   out, probeCalls, marshalCalls, cbRet, probeRet, indentRes>>

\* collectAndPrint without the test of c.failed
collectAndPrint_skipFailedCheck(merr, w) ==
    /\ pc = "returned"
    /\ outputFormat \in {"json", "yaml"}
    /\ pc' = "done"
    /\ IF probeRet # NoError
       THEN /\ ret' = probeRet
            /\ UNCHANGED <<marshalCalls, out>>
       ELSE /\ marshalCalls' = marshalCalls + 1
            /\ IF merr
               THEN /\ ret' = MarshalError
                    /\ UNCHANGED out
               ELSE /\ Write(marshal(outputFormat, c_results), w)
                    /\ ret' = WriteRet(w)
    /\ UNCHANGED <<outputFormat, isTerminal, calls, cli_failed, c_failed, c_results,
                   probeCalls, cbRet, probeRet, indentRes>>

\* collectAndPrint, after probe.Probe(&c) has returned; merr is whether the
\* marshal function returns an error and w the outcome of out.Write.
collectAndPrint(merr, w) ==
    /\ pc = "returned"
    /\ outputFormat \in {"json", "yaml"}
    /\ pc' = "done"
    /\ IF probeRet # NoError
       THEN /\ ret' = probeRet
            /\ UNCHANGED <<marshalCalls, out>>
       ELSE IF c_failed
       THEN /\ ret' = SysinfoFailed
            /\ UNCHANGED <<marshalCalls, out>>
       ELSE /\ marshalCalls' = marshalCalls + 1
            /\ IF merr
               THEN /\ ret' = MarshalError
                    /\ UNCHANGED out
               ELSE /\ Write(marshal(outputFormat, c_results), w)
                    /\ ret' = WriteRet(w)
    /\ UNCHANGED <<outputFormat, isTerminal, calls, cli_failed, c_failed, c_results,
                   probeCalls, cbRet, probeRet, indentRes>>

CollectAndPrint == \E merr \in BOOLEAN, w \in WriteOutcomes : collectAndPrint(merr, w)

----------------------------------------------------------------------------
(* The probe engine: probes.Probe(reporter).  It calls the reporter once per *)
(* probe; an error a callback returns ends the pass and is what Probe        *)
(* returns; the pass may also end in an error of the engine's own.           *)

Probing == pc = "probing" /\ cbRet = NoError /\ Len(calls) < MaxCalls

TextPass ==
    /\ Probing /\ outputFormat = "text"
    /\ \E p \in ProbeDescs, v \in ProbeProps, w \in WriteOutcomes : cliPass(p, v, w)

TextWarn ==
    /\ Probing /\ outputFormat = "text"
    /\ \E p \in ProbeDescs, v \in ProbeProps, msg \in ProbeMsgs, w \in WriteOutcomes :
          cliWarn(p, v, msg, w)

TextReject ==
    /\ Probing /\ outputFormat = "text"
    /\ \E p \in ProbeDescs, v \in ProbeProps, msg \in ProbeMsgs, w \in WriteOutcomes :
          cliReject(p, v, msg, w)

TextError ==
    /\ Probing /\ outputFormat = "text"
    /\ \E p \in ProbeDescs, err \in ProbeErrs, w \in WriteOutcomes : cliError(p, err, w)

StructuredPass ==
    /\ Probing /\ outputFormat \in {"json", "yaml"}
    /\ \E p \in ProbeDescs, v \in ProbeProps : collectorPass(p, v)

StructuredWarn ==
    /\ Probing /\ outputFormat \in {"json", "yaml"}
    /\ \E p \in ProbeDescs, v \in ProbeProps, msg \in ProbeMsgs : collectorWarn(p, v, msg)

StructuredReject ==
    /\ Probing /\ outputFormat \in {"json", "yaml"}
    /\ \E p \in ProbeDescs, v \in ProbeProps, msg \in ProbeMsgs : collectorReject(p, v, msg)

StructuredError ==
    /\ Probing /\ outputFormat \in {"json", "yaml"}
    /\ \E p \in ProbeDescs, err \in ProbeErrs : collectorError(p, err)

\* Probe returns: the error of the callback that failed, or nil.
ProbeReturn ==
    /\ pc = "probing"
    /\ probeRet' = cbRet
    /\ pc' = "returned"
    /\ UNCHANGED <<outputFormat, isTerminal, calls, cli_failed, c_failed, c_results,
                   out, probeCalls, marshalCalls, cbRet, ret, indentRes>>

\* Probe returns an error of the engine's own.
ProbeFail ==
    /\ pc = "probing"
    /\ cbRet = NoError
    /\ probeRet' = ProbeError
    /\ pc' = "returned"
    /\ UNCHANGED <<outputFormat, isTerminal, calls, cli_failed, c_failed, c_results,
                   out, probeCalls, marshalCalls, cbRet, ret, indentRes>>

Next ==
    \/ RunEText \/ RunEStructured \/ RunEUnknown
    \/ TextPass \/ TextWarn \/ TextReject \/ TextError
    \/ StructuredPass \/ StructuredWarn \/ StructuredReject \/ StructuredError
    \/ ProbeReturn \/ ProbeFail
    \/ RunETextReturn \/ CollectAndPrint

Spec == Init /\ [][Next]_vars

----------------------------------------------------------------------------
(* The reporter harness: one call of a cliReporter callback, or of indent,   *)
(* on a fresh reporter, with inputs from every string over Alphabet.         *)

Alphabet == {"a", NL}

Strings == UNION { [1..n -> Alphabet] : n \in 0..MaxStrLen }

UnitPaths == {NilSlice} \cup { Slice([i \in 1..n |-> "s"]) : n \in 0..MaxPathLen }

UnitDescs == { Desc(path, name) : path \in UnitPaths, name \in Strings }

UnitProps == {NilProp} \cup { Prop(s) : s \in Strings }

UnitErrs == {NilErr} \cup { Err(s) : s \in Strings }

InitUnit ==
    /\ outputFormat = "text"
    /\ isTerminal \in BOOLEAN
    /\ pc = "unit"
    /\ calls = <<>>
    /\ cli_failed = FALSE
    /\ c_failed = FALSE
    /\ c_results = NilSlice
    /\ out = <<>>
    /\ probeCalls = 0
    /\ marshalCalls = 0
    /\ cbRet = NoError
    /\ probeRet = NoError
    /\ ret = NoError
    /\ indentRes = <<>>

Fresh == pc = "unit" /\ calls = <<>>

UnitPass ==
    /\ Fresh
    /\ \E p \in UnitDescs, v \in UnitProps, w \in WriteOutcomes : cliPass(p, v, w)

UnitWarn ==
    /\ Fresh
    /\ \E p \in UnitDescs, v \in UnitProps, msg \in Strings, w \in WriteOutcomes :
          cliWarn(p, v, msg, w)

UnitReject ==
    /\ Fresh
    /\ \E p \in UnitDescs, v \in UnitProps, msg \in Strings, w \in WriteOutcomes :
          cliReject(p, v, msg, w)

UnitError ==
    /\ Fresh
    /\ \E p \in UnitDescs, err \in UnitErrs, w \in WriteOutcomes : cliError(p, err, w)

UnitIndent ==
    /\ Fresh
    /\ \E p \in UnitDescs \cup {NilDesc} :
          /\ indentRes' = indent(p)
          /\ calls' = <<Call("indent", p, NilProp, <<>>, NilErr, "none")>>
    /\ UNCHANGED <<outputFormat, isTerminal, pc, cli_failed, c_failed, c_results,
                   out, probeCalls, marshalCalls, cbRet, probeRet, ret>>

NextUnit == UnitPass \/ UnitWarn \/ UnitReject \/ UnitError \/ UnitIndent

SpecUnit == InitUnit /\ [][NextUnit]_vars

----------------------------------------------------------------------------
(* Vocabulary of the properties *)

Done == pc = "done"

Structured == outputFormat \in {"json", "yaml"}

Recognized == outputFormat \in {"text", "json", "yaml"}

\* the callback sequence contains a Reject or an Error
AnyFail(cs) == \E i \in 1..Len(cs) : cs[i].kind \in {"Reject", "Error"}

\* the marshal function was called and returned an error
MarshalFailed == Structured /\ marshalCalls > Len(out)

\* some Write of the sink returned an error
WriteFailed == \E i \in 1..Len(out) : out[i].err

CategoryOf(kind) ==
    CASE kind = "Pass" -> <<"p", "a", "s", "s">>
      [] kind = "Warn" -> <<"w", "a", "r", "n", "i", "n", "g">>
      [] kind = "Reject" -> <<"r", "e", "j", "e", "c", "t", "e", "d">>
      [] kind = "Error" -> <<"e", "r", "r", "o", "r">>

PropStringOf(v) == IF v.isNil THEN <<>> ELSE v.str

\* the record tokens of a document, in document order
RecordsOf(doc) == SelectSeq(doc, LAMBDA t : t.t = "record")

\* doc is one document of encoder enc holding one record per callback of cs,
\* in callback order, each with the callback's category and arguments
DocumentOf(doc, enc, cs) ==
    /\ \A i \in 1..Len(doc) : doc[i].enc = enc
    /\ \/ Len(doc) = 1 /\ doc[1].t = "null"
       \/ /\ Len(doc) >= 2 /\ doc[1].t = "begin" /\ doc[Len(doc)].t = "end"
          /\ \A i \in 2..(Len(doc) - 1) : doc[i].t = "record"
    /\ LET recs == RecordsOf(doc)
       IN  /\ Len(recs) = Len(cs)
           /\ \A i \in 1..Len(cs) :
                 /\ recs[i].rec.Category = CategoryOf(cs[i].kind)
                 /\ recs[i].rec.Path.elems = cs[i].p.path.elems
                 /\ recs[i].rec.DisplayName = cs[i].p.name
                 /\ recs[i].rec.Prop = PropStringOf(cs[i].v)
                 /\ recs[i].rec.Message = cs[i].msg

\* the line the human reporter builds for a callback
LineOf(c) ==
    CASE c.kind = "Pass" -> PassLine(c.p, c.v)
      [] c.kind = "Warn" -> WarnLine(c.p, c.v, c.msg)
      [] c.kind = "Reject" -> RejectLine(c.p, c.v, c.msg)
      [] c.kind = "Error" -> ErrorLine(c.p, c.err)

----------------------------------------------------------------------------
(* C1 *)

\* C1 as stated: whenever the callbacks delivered to the structured collector
\* contain a Reject or an Error, collectAndPrint returns "sysinfo failed",
\* never calls marshal or out.Write and leaves the sink empty.
C1_AsStated ==
    (Done /\ Structured /\ AnyFail(calls)) =>
        /\ ret = SysinfoFailed
        /\ marshalCalls = 0
        /\ out = <<>>
        /\ Bytes(out) = <<>>

\* C1 (amended): whenever the callbacks delivered to the structured collector
\* contain a Reject or an Error, collectAndPrint returns an error, which is
\* "sysinfo failed" when Probe itself returned nil and Probe's own error
\* otherwise, never calls marshal or out.Write and leaves the sink empty.
C1_FailedWritesNothing ==
    (Done /\ Structured /\ AnyFail(calls)) =>
        /\ ret # NoError
        /\ ret = (IF probeRet = NoError THEN SysinfoFailed ELSE probeRet)
        /\ marshalCalls = 0
        /\ out = <<>>
        /\ Bytes(out) = <<>>

C1_Witness ==
    /\ Done /\ Structured /\ Len(calls) = 2
    /\ calls[1].kind = "Pass" /\ calls[2].kind = "Reject"
    /\ ret = SysinfoFailed /\ out = <<>>

----------------------------------------------------------------------------
(* C2 *)

\* C2 as stated: after any sequence of Pass and Warn callbacks only,
\* collectAndPrint has emitted exactly one document, whole, with one record
\* per callback in callback order carrying the callback's category, path,
\* display name, property string and message.
C2_AsStated ==
    (Done /\ Structured /\ ~AnyFail(calls)) =>
        /\ Len(out) = 1
        /\ out[1].n = Len(out[1].data)
        /\ DocumentOf(Bytes(out), outputFormat, calls)

\* C2 (amended): after any sequence of Pass and Warn callbacks only from which
\* Probe returns nil, collectAndPrint calls marshal once and, when marshal
\* succeeds, hands the sink in exactly one Write one document with one
\* record per callback in callback order carrying the callback's category,
\* path, display name, property string and message; the sink holds the whole
\* document, and the result is nil, exactly when that Write succeeds.
C2_OneDocument ==
    (Done /\ Structured /\ ~AnyFail(calls) /\ probeRet = NoError) =>
        /\ marshalCalls = 1
        /\ MarshalFailed => ret = MarshalError
        /\ ~MarshalFailed =>
              /\ Len(out) = 1
              /\ DocumentOf(out[1].data, outputFormat, calls)
              /\ ret = (IF out[1].err THEN WriteError ELSE NoError)
              /\ ~out[1].err => Bytes(out) = out[1].data

C2_Witness ==
    /\ Done /\ Structured /\ Len(calls) = 2
    /\ calls[1].kind = "Warn" /\ calls[2].kind = "Pass"
    /\ calls[1].p # calls[2].p
    /\ ret = NoError /\ Len(out) = 1 /\ Len(Bytes(out)) = 4

----------------------------------------------------------------------------
(* C3 *)

\* C3 as stated: the command returns an error exactly when some probe rejected
\* or errored or the output format is unrecognized.
C3_AsStated ==
    Done => (ret # NoError <=> (AnyFail(calls) \/ ~Recognized))

\* C3 (amended): the command returns an error when any probe rejected or
\* errored, when --output is unrecognized, when Probe returned an error (its
\* own, or the write error of a human-reporter callback), or when the marshal
\* function or the write of the structured document failed; it returns
\* success in every other case.
C3_ExitBehaviour ==
    Done =>
        (ret # NoError <=>
            \/ AnyFail(calls)
            \/ ~Recognized
            \/ probeRet # NoError
            \/ MarshalFailed
            \/ WriteFailed)

C3_Witness ==
    /\ Done /\ outputFormat = "text" /\ Len(calls) = 2
    /\ calls[1].kind = "Error" /\ calls[2].kind = "Warn"
    /\ probeRet = NoError /\ ret = SysinfoFailed

----------------------------------------------------------------------------
(* C4 *)

\* C4: with an unrecognized output format the driver returns the
\* format-validation error, never invokes Probe, so that no callback runs, and
\* writes nothing; with a recognized format it invokes Probe exactly once.
C4_FormatValidatedFirst ==
    /\ ~Recognized =>
          /\ probeCalls = 0 /\ calls = <<>> /\ out = <<>>
          /\ pc \in {"start", "done"}
          /\ Done => ret = UnknownFormat
    /\ Recognized =>
          /\ probeCalls = (IF pc = "start" THEN 0 ELSE 1)
          /\ Done => ret # UnknownFormat

C4_Witness ==
    Done /\ outputFormat = "csv" /\ ret = UnknownFormat /\ probeCalls = 0

----------------------------------------------------------------------------
(* C5 *)

\* C5 as stated: in text format the sink holds the line of every callback made
\* so far; in json/yaml format the sink is empty until Probe has returned and
\* receives exactly one Write in a run that succeeds and none in a run that
\* fails.
C5_AsStated ==
    /\ outputFormat = "text" =>
          /\ Len(out) = Len(calls)
          /\ \A i \in 1..Len(calls) :
                out[i].data = LineOf(calls[i]) /\ out[i].n = Len(out[i].data)
    /\ Structured =>
          /\ pc \in {"start", "probing"} => out = <<>>
          /\ Len(out) <= 1
          /\ Done => Len(out) = (IF ret = NoError THEN 1 ELSE 0)

\* C5 (amended): in text format every callback hands its line to the sink at
\* the time of the callback, and the sink holds the whole line of every
\* callback whose write succeeded, which every callback that precedes another
\* one is; in json/yaml format the sink is empty until Probe has returned and
\* receives at most one Write in the run: exactly one in a run that succeeds,
\* none in a run that fails before writing (Probe error, failure flag or
\* marshal error), and one, which failed, in a run that fails by the write.
C5_StreamedOrBuffered ==
    /\ outputFormat = "text" =>
          /\ Len(out) = Len(calls)
          /\ \A i \in 1..Len(calls) :
                /\ out[i].data = LineOf(calls[i])
                /\ calls[i].w = "ok" => out[i].n = Len(out[i].data)
                /\ i < Len(calls) => calls[i].w = "ok"
    /\ Structured =>
          /\ pc \in {"start", "probing"} => out = <<>>
          /\ pc = "returned" => out = <<>>
          /\ Len(out) <= 1
          /\ Done =>
                /\ ret = NoError => Len(out) = 1 /\ ~out[1].err
                /\ ret \in {ProbeError, SysinfoFailed, MarshalError} => out = <<>>
                /\ ret = WriteError => Len(out) = 1 /\ out[1].err

C5_Witness ==
    /\ Done /\ outputFormat = "text" /\ Len(calls) = 2
    /\ calls[1].kind = "Pass" /\ calls[2].kind = "Reject"
    /\ ret = SysinfoFailed
    /\ Bytes(out) = LineOf(calls[1]) \o LineOf(calls[2])

----------------------------------------------------------------------------
(* Vocabulary of the human format *)

Spaces(n) == [i \in 1..n |-> SP]

\* the text without its colour escape sequences
Strip(text) == SelectSeq(text, LAMBDA c : c \notin Escapes)

\* number of newlines in a text
Newlines(text) == Cardinality({ i \in 1..Len(text) : text[i] = NL })

\* 2 * (N - 1) for a path of N > 1 segments, 0 for a shorter path
IndentWidth(p) ==
    IF p.isNil \/ Len(p.path.elems) <= 1 THEN 0 ELSE 2 * (Len(p.path.elems) - 1)

\* a callback of the human reporter has run on the fresh reporter
Called(kinds) == pc = "unit" /\ calls # <<>> /\ calls[1].kind \in kinds

\* "(category)" or "(category: msg)"
Annotation(category, msg) ==
    IF msg = <<>> THEN <<"(">> \o category \o <<")">>
    ELSE <<"(">> \o category \o <<":", SP>> \o msg \o <<")">>

----------------------------------------------------------------------------
(* C6 *)

\* C6 as stated: each callback of the human reporter makes one write of
\* exactly one line, its only newline being the last character, whatever the
\* descriptor, property, message and error text, and returns the write error
\* when the write fails.
C6_AsStated ==
    Called({"Pass", "Warn", "Reject", "Error"}) =>
        /\ Len(out) = 1
        /\ out[1].data[Len(out[1].data)] = NL
        /\ Newlines(out[1].data) = 1
        /\ out[1].err => cbRet = WriteError

\* C6 (amended): each callback of the human reporter makes exactly one write,
\* of a text that ends in a newline and holds, besides it, only the newlines
\* of the display name, property string, message and error text it was given
\* (so exactly one line when these hold none); it returns the write error
\* when the write fails and nil when it succeeds.
C6_OneWritePerCallback ==
    Called({"Pass", "Warn", "Reject", "Error"}) =>
        LET c == calls[1]
        IN  /\ Len(out) = 1
            /\ out[1].data[Len(out[1].data)] = NL
            /\ Newlines(out[1].data) =
                   1 + Newlines(c.p.name) + Newlines(PropStringOf(c.v))
                     + Newlines(c.msg) + Newlines(c.err.text)
            /\ cbRet = (IF out[1].err THEN WriteError ELSE NoError)
            /\ ~out[1].err => Bytes(out) = out[1].data

C6_Witness ==
    /\ Called({"Error"})
    /\ out[1].err /\ cbRet = WriteError
    /\ Newlines(out[1].data) = 1

----------------------------------------------------------------------------
(* C7 *)

\* C7: indent gives no indentation for a nil descriptor and for a path of
\* length 0 or 1, and exactly 2*(N-1) spaces for a path of length N > 1; every
\* line of the human reporter starts with that indentation, followed by the
\* display name.
C7_Indentation ==
    /\ Called({"indent"}) => indentRes = Spaces(IndentWidth(calls[1].p))
    /\ Called({"Pass", "Warn", "Reject", "Error"}) =>
          LET text == Strip(out[1].data)
              width == IndentWidth(calls[1].p)
              name == calls[1].p.name
          IN  SubSeq(text, 1, width + Len(name)) = Spaces(width) \o name

C7_Witness ==
    /\ Called({"indent"})
    /\ Len(calls[1].p.path.elems) = 3
    /\ indentRes = <<SP, SP, SP, SP>>

----------------------------------------------------------------------------
(* C8 *)

\* C8: the line Error writes is, colours aside, the indentation, the display
\* name, ": " and then the bare word "error" when err is nil or has an empty
\* text, and "error: <text>" when err has a non-empty text.
C8_ErrorText ==
    Called({"Error"}) =>
        LET c == calls[1]
            word == <<"e", "r", "r", "o", "r">>
            head == Spaces(IndentWidth(c.p)) \o c.p.name \o <<":", SP>>
        IN  Strip(out[1].data) =
                IF c.err.isNil \/ c.err.text = <<>>
                THEN head \o word \o <<NL>>
                ELSE head \o word \o <<":", SP>> \o c.err.text \o <<NL>>

C8_Witness ==
    /\ Called({"Error"})
    /\ ~calls[1].err.isNil /\ calls[1].err.text = <<>>
    /\ calls[1].p.name = <<"a">> /\ Len(calls[1].p.path.elems) = 1
    /\ Strip(out[1].data) = <<"a", ":", SP, "e", "r", "r", "o", "r", NL>>

----------------------------------------------------------------------------
(* C9 *)

\* C9: the line Warn (Reject) writes is, colours aside, the indentation, the
\* display name, ": ", the property string, and the annotation "(warning)"
\* ("(rejected)") for an empty message or "(warning: <message>)"
\* ("(rejected: <message>)") otherwise; one space separates the annotation
\* from the property string exactly when the property string is non-empty,
\* and an absent property has the empty property string.
C9_Annotation ==
    Called({"Warn", "Reject"}) =>
        LET c == calls[1]
            category == IF c.kind = "Warn" THEN <<"w", "a", "r", "n", "i", "n", "g">>
                        ELSE <<"r", "e", "j", "e", "c", "t", "e", "d">>
            ps == IF c.v.isNil THEN <<>> ELSE c.v.str
            head == Spaces(IndentWidth(c.p)) \o c.p.name \o <<":", SP>>
        IN  Strip(out[1].data) =
                head \o ps \o (IF ps = <<>> THEN <<>> ELSE <<SP>>)
                     \o Annotation(category, c.msg) \o <<NL>>

C9_Witness ==
    /\ Called({"Warn"})
    /\ calls[1].v.isNil /\ calls[1].msg = <<"a">>
    /\ calls[1].p.name = <<"a">> /\ Len(calls[1].p.path.elems) = 0
    /\ Strip(out[1].data)
         = <<"a", ":", SP, "(", "w", "a", "r", "n", "i", "n", "g", ":", SP, "a", ")", NL>>

----------------------------------------------------------------------------
(* C10 *)

\* C10: the failure flag of either reporter is false at the start, is true
\* exactly when the callbacks made so far on that reporter contain a Reject or
\* an Error, is left as it is by Pass and Warn, and never goes back to false.
C10_FailureFlag ==
    /\ (~cli_failed /\ ~c_failed)
    /\ [](cli_failed <=> (outputFormat = "text" /\ AnyFail(calls)))
    /\ [](c_failed <=> (Structured /\ AnyFail(calls)))
    /\ [][ /\ cli_failed => cli_failed'
           /\ c_failed => c_failed'
           /\ (Len(calls') > Len(calls) /\ calls'[Len(calls')].kind \in {"Pass", "Warn"})
                => (cli_failed' = cli_failed /\ c_failed' = c_failed) ]_vars

C10_Witness ==
    /\ outputFormat = "text" /\ Len(calls) = 2
    /\ calls[1].kind = "Reject" /\ calls[2].kind = "Pass"
    /\ cli_failed

====
